---- MODULE Spec2Model ----
(***************************************************************************)
(* Model of the bedtime-stories generation pipeline:                       *)
(*   backend/app/main.py            start_generation, _run_pipeline,       *)
(*                                  on_progress, delete_story, ...         *)
(*   backend/app/services/store.py  StoryStore                             *)
(*   backend/app/services/tts_service.py  chapters_to_audio                *)
(*   backend/app/services/audio_processor.py  merge_audio_files            *)
(*                                                                         *)
(* One asyncio event loop runs the request handlers and the detached       *)
(* _run_pipeline tasks.  A step of the model is what one task executes     *)
(* between two suspension points (an await that really suspends): the      *)
(* provider call of the text stage (asyncio.to_thread) and the speech      *)
(* synthesis call (edge_tts save).  on_progress contains no suspension     *)
(* point, and merge_audio_files / get_audio_duration are plain functions,  *)
(* so they run inside the step that reaches them.                          *)
(***************************************************************************)
EXTENDS Integers, Sequences, FiniteSets, TLC

\* ------------------------------------------------------------------ bounds
NumIds == 2        \* size of the space str(uuid.uuid4())[:8] draws from
MaxRuns == 2       \* number of start requests
MaxChapters == 3   \* longest chapter list given to chapters_to_audio
MaxClipSeconds == 2    \* longest clip handed to merge_audio_files, in s
MaxTime == 2       \* latest created_at of a record handed to add_story

Ids == 1..NumIds
Runs == 1..MaxRuns

\* ------------------------------------------------------------- constants
NoPct == -1                     \* pct is None / key "progress_pct" not set
NoExc == "NoExc"                \* no exception pending
NoneStr == "None"               \* Python None of an optional string

ProgressPrepareAudio == 30
ProgressTitleAudio == 80
ProgressMerge == 85

\* the exceptions that reach the except clause of _run_pipeline
ProviderError == "ProviderError"          \* content backend call raised
NoFieldError == "ValueError: StoryMeta object has no field progress_pct"
FileNotFound == "FileNotFoundError"       \* story directory is gone
TtsError == "TtsError"                    \* synthesis raised / empty file
NoAudioFiles == "ValueError: No audio files provided"
MediaToolError == "CalledProcessError"    \* ffmpeg / ffprobe failed
NotAwaitable == "TypeError: object PosixPath can't be used in 'await' expression"

Fehler(e) == "Fehler: " \o e

\* file names inside a story directory
StoryJson == "story.json"
ChunksDir == "chunks"
TitleMp3 == "chunks/title.mp3"
StoryMp3 == "story.mp3"
ChapterFiles == << "chunks/chapter_01.mp3", "chunks/chapter_02.mp3",
                   "chunks/chapter_03.mp3", "chunks/chapter_04.mp3",
                   "chunks/chapter_05.mp3", "chunks/chapter_06.mp3" >>

VARIABLES
  generation_status,  \* main._generation_status: story_id -> status dict
  stories,            \* store._stories: story_id -> StoryMeta
  db_synced,          \* stories.json holds exactly the mapping in memory
  dirs,               \* story_ids whose directory AUDIO_OUTPUT_DIR/story_id exists
  files,              \* story_id -> (file name -> "data" | "empty")
  run,                \* the _run_pipeline tasks, one per start request
  clock,              \* datetime.now() as a logical clock
  last_call           \* the direct call of a store or assembler function
                      \* made by the last step (arguments and result),
                      \* NoCall when the step made none

vars ==
  << generation_status, stories, db_synced, dirs, files, run, clock, last_call >>

NoCall == [ op |-> "none" ]

NoFiles == [n \in {} |-> "data"]
Remove(f, keys) == [x \in DOMAIN f \ keys |-> f[x]]

IdleRun ==
  [ pc |-> "idle", id |-> 0, chapters |-> 0, i |-> 0,
    audio_files |-> << >>, tts_calls |-> << >>, written |-> << >>,
    merge_input |-> << >>, stages |-> << >>, returned |-> 0, exc |-> NoExc ]

Init ==
  /\ generation_status = [x \in {} |-> 0]
  /\ stories = [x \in {} |-> 0]
  /\ db_synced = TRUE
  /\ dirs = {}
  /\ files = [id \in Ids |-> NoFiles]
  /\ run = [r \in Runs |-> IdleRun]
  /\ clock = 0
  /\ last_call = NoCall

\* ------------------------------------------------------------ the store
\* StoryStore.get_by_id: the record, or absent (None)
get_by_id(st, story_id) == story_id \in DOMAIN st

\* add_story keeping the record already stored under the id.
add_story_keep_first(st, story_id, story) == st @@ (story_id :> story)

\* add_story replacing the whole mapping by the one record.
add_story_alone(st, story_id, story) == (story_id :> story)

\* StoryStore.add_story without its save(): self._stories[story.id] = story
add_story(st, story_id, story) == (story_id :> story) @@ st

\* StoryStore.get_all: newest first (created_at descending), optionally
\* only the records with is_on_spotify.  sorted() is stable: records with
\* the same created_at keep the order of the dict, which the model takes
\* to be the order of the ids.
RECURSIVE SortedDesc(_, _)
SortedDesc(st, ids) ==
  IF ids = {} THEN << >>
  ELSE LET newest == CHOOSE x \in ids :
                       \A y \in ids :
                         /\ st[y].created_at <= st[x].created_at
                         /\ st[y].created_at = st[x].created_at => x <= y
       IN << newest >> \o SortedDesc(st, ids \ {newest})

\* StoryStore.get_all without the filter.
get_all_unfiltered(st, only_spotify) == SortedDesc(st, DOMAIN st)

get_all(st, only_spotify) ==
  SortedDesc(st, {x \in DOMAIN st : (only_spotify => st[x].is_on_spotify)})

\* get_status: the dict served by GET /api/status/{id}; absent -> 404
get_status(story_id) == generation_status[story_id]

\* ------------------------------------------------ the progress callback
\* The value on_progress stores in StoryMeta.status for a status_type.
DurableStatusRaw(status_type) == status_type

DurableStatus(status_type) ==
  IF status_type # "done" /\ status_type # "error" THEN "generating"
  ELSE status_type

\* A context c is the state one step works on: the status map (gs), the
\* store (st), the snapshots handed to save() during the step (snaps),
\* the directories and files, the task's own record (run) and the pending
\* exception (exc, NoExc when none).
Ctx(r) ==
  [ gs |-> generation_status, st |-> stories, snaps |-> {},
    dirs |-> dirs, files |-> files, run |-> run[r], exc |-> NoExc ]

\* Whether on_progress raises: StoryMeta declares no field progress_pct,
\* so "curr.progress_pct = pct" raises ValueError when the record exists
\* and a percentage is given.
on_progress_raises(st, story_id, pct) ==
  get_by_id(st, story_id) /\ pct # NoPct

\* on_progress(status_type, message, pct) of the run of story_id.
on_progress(c, story_id, status_type, message, pct) ==
  IF c.exc # NoExc THEN c
  ELSE
    LET gs1 == [c.gs EXCEPT ![story_id] =
                  [@ EXCEPT !.status = status_type,
                            !.progress = message,
                            !.progress_pct = IF pct # NoPct THEN pct ELSE @]]
        found == get_by_id(c.st, story_id)
        \* curr is the stored object itself: the two assignments are
        \* visible in the store even when the third one raises
        st1 == IF found
               THEN [c.st EXCEPT ![story_id] =
                       [@ EXCEPT !.status = DurableStatus(status_type),
                                 !.progress = message]]
               ELSE c.st
        raises == on_progress_raises(c.st, story_id, pct)
    IN [c EXCEPT !.gs = gs1,
                 !.st = st1,
                 !.snaps = IF found /\ ~raises THEN @ \cup {st1} ELSE @,
                 !.exc = IF raises THEN NoFieldError ELSE NoExc]

\* The except clause with a clean-up of the story directory added.
except_clause_cleanup(c, story_id) ==
  IF c.exc = NoExc THEN c
  ELSE
    LET gs1 == [c.gs EXCEPT ![story_id] =
                  [@ EXCEPT !.status = "error", !.progress = Fehler(c.exc)]]
        found == get_by_id(c.st, story_id)
        st1 == IF found
               THEN [c.st EXCEPT ![story_id] =
                       [@ EXCEPT !.status = "error", !.progress = Fehler(c.exc)]]
               ELSE c.st
    IN [c EXCEPT !.gs = gs1,
                 !.st = st1,
                 !.snaps = IF found THEN @ \cup {st1} ELSE @,
                 !.files[story_id] = NoFiles,
                 !.run = [@ EXCEPT !.pc = "ended", !.exc = c.exc]]

\* The error write-back resetting the publication flag.
error_meta_unpublished(curr, exc) ==
  [curr EXCEPT !.status = "error", !.progress = Fehler(exc),
               !.is_on_spotify = FALSE]

\* The error write-back storing a record built anew.
error_meta_rebuilt(curr, exc) ==
  [curr EXCEPT !.status = "error", !.progress = Fehler(exc),
               !.created_at = 0, !.voice_name = NoneStr]

\* The error write-back going back to the placeholder title.
error_meta_untitled(curr, exc) ==
  [curr EXCEPT !.status = "error", !.progress = Fehler(exc),
               !.title = "Schreibe Geschichte...", !.description = "Idee: ..."]

\* curr.status = "error"; curr.progress = f"Fehler: {str(e)}"
error_meta(curr, exc) ==
  [curr EXCEPT !.status = "error", !.progress = Fehler(exc)]

\* The except clause of _run_pipeline: runs when an exception is pending.
except_clause(c, story_id) ==
  IF c.exc = NoExc THEN c
  ELSE
    LET gs1 == [c.gs EXCEPT ![story_id] =
                  [@ EXCEPT !.status = "error", !.progress = Fehler(c.exc)]]
        found == get_by_id(c.st, story_id)
        st1 == IF found
               THEN [c.st EXCEPT ![story_id] = error_meta(@, c.exc)]
               ELSE c.st
    IN [c EXCEPT !.gs = gs1,
                 !.st = st1,
                 !.snaps = IF found THEN @ \cup {st1} ELSE @,
                 !.run = [@ EXCEPT !.pc = "ended", !.exc = c.exc]]

\* StoryStore.save rewrites stories.json from the mapping in memory and
\* swallows every exception (it only logs): the caller never sees a failed
\* write.  saved is whether the step called save at all, st the mapping
\* after the step.  After a write that succeeded the file holds the
\* mapping; after one that failed it holds it only if it did before and
\* the step changed nothing.
save(saved, st) ==
  IF saved
  THEN db_synced' \in {TRUE, db_synced /\ st = stories}
  ELSE db_synced' = (db_synced /\ st = stories)

Commit(c, r) ==
  /\ generation_status' = c.gs
  /\ stories' = c.st
  /\ save(c.snaps # {}, c.st)
  /\ dirs' = c.dirs
  /\ files' = c.files
  /\ run' = [run EXCEPT ![r] = c.run]
  /\ last_call' = NoCall

\* ----------------------------------------------------------- the files
IsChunk(name) ==
  name = TitleMp3 \/ \E k \in 1..Len(ChapterFiles) : name = ChapterFiles[k]

\* Path.write_text / open(path, "wb") / ffmpeg output: the parent
\* directory must exist.
CanWrite(c, story_id, name) ==
  /\ story_id \in c.dirs
  /\ IsChunk(name) => ChunksDir \in DOMAIN c.files[story_id]

WriteFile(c, story_id, name, content) ==
  [c EXCEPT !.files[story_id] = (name :> content) @@ @]

\* The text stage without the write of its artifact.
write_text_skipped(c, story_id, name) == c

\* text_path.write_text(json.dumps(story_data)): the file is written when
\* its directory exists, FileNotFoundError is raised otherwise.
write_text(c, story_id, name) ==
  IF c.exc # NoExc THEN c
  ELSE IF CanWrite(c, story_id, name)
  THEN WriteFile(c, story_id, name, "data")
  ELSE [c EXCEPT !.exc = FileNotFound]

\* f"chapter_{i + 1:02d}.mp3" under the chunk directory, i counted from 0
ChunkNameSame(i) == ChapterFiles[1]

ChunkName(i) == ChapterFiles[i + 1]

\* ---------------------------------------------------- the pipeline steps
\* Step 2.5 and on, up to the suspension inside generate_tts_chunk for
\* the title (main.py 267-275).
title_begin(c, story_id) ==
  IF c.exc # NoExc THEN c
  ELSE
    LET c1 == [c EXCEPT !.run.returned = 2]   \* chapters_to_audio returned
        c2 == on_progress(c1, story_id, "generating_audio",
                          "Vertone Titel...", ProgressTitleAudio)
    IN IF c2.exc # NoExc THEN c2
       ELSE [c2 EXCEPT !.run.pc = "title",
                       !.run.stages = Append(@, "title"),
                       !.run.tts_calls = Append(@, 0)]

\* The loop of chapters_to_audio leaving a failed chapter out and going on
\* with the title.
loop_head_skip_failed(c, story_id) ==
  IF c.exc = TtsError THEN title_begin([c EXCEPT !.exc = NoExc], story_id)
  ELSE IF c.exc # NoExc THEN c
  ELSE IF c.run.i < c.run.chapters
  THEN LET c1 == on_progress(c, story_id, "tts", "Vertone Kapitel", NoPct)
       IN [c1 EXCEPT !.run.pc = "tts",
                     !.run.tts_calls = Append(@, c.run.i + 1)]
  ELSE title_begin(c, story_id)

\* The loop of chapters_to_audio submitting a failed chapter again.
loop_head_retry(c, story_id) ==
  IF c.exc = TtsError
  THEN [c EXCEPT !.exc = NoExc, !.run.pc = "tts",
                 !.run.tts_calls = Append(@, c.run.i + 1)]
  ELSE IF c.exc # NoExc THEN c
  ELSE IF c.run.i < c.run.chapters
  THEN LET c1 == on_progress(c, story_id, "tts", "Vertone Kapitel", NoPct)
       IN [c1 EXCEPT !.run.pc = "tts",
                     !.run.tts_calls = Append(@, c.run.i + 1)]
  ELSE title_begin(c, story_id)

\* The head of the loop of chapters_to_audio: announce chapter i+1 and
\* suspend in its synthesis call, or leave the loop.
loop_head(c, story_id) ==
  IF c.exc # NoExc THEN c
  ELSE IF c.run.i < c.run.chapters
  THEN LET c1 == on_progress(c, story_id, "tts", "Vertone Kapitel", NoPct)
       IN [c1 EXCEPT !.run.pc = "tts",
                     !.run.tts_calls = Append(@, c.run.i + 1)]
  ELSE title_begin(c, story_id)

\* The audio stage with the title synthesized before the chapters.
chapters_to_audio_title_first(c, story_id) ==
  IF c.exc # NoExc THEN c
  ELSE
    LET c1 == [c EXCEPT !.dirs = @ \cup {story_id},
                        !.files[story_id] = (ChunksDir :> "data") @@ @,
                        !.run.stages = Append(Append(@, "title"), "segments"),
                        !.run.i = 0,
                        !.run.audio_files = << >>]
    IN loop_head(c1, story_id)

\* chapters_to_audio up to its first suspension: mkdir(parents=True,
\* exist_ok=True) of the chunk directory, audio_files = [].
chapters_to_audio(c, story_id) ==
  IF c.exc # NoExc THEN c
  ELSE
    LET c1 == [c EXCEPT !.dirs = @ \cup {story_id},
                        !.files[story_id] = (ChunksDir :> "data") @@ @,
                        !.run.stages = Append(@, "segments"),
                        !.run.i = 0,
                        !.run.audio_files = << >>]
    IN loop_head(c1, story_id)

\* merge_audio_files as _run_pipeline calls it, and the await applied to
\* its result.  merge_audio_files is a plain function: it runs to its end
\* inside this step and returns a Path, which is not awaitable, so the
\* await raises TypeError after the merge itself has succeeded.
merge_audio_files(c, story_id, media) ==
  IF c.exc # NoExc THEN c
  ELSE
    LET c1 == [c EXCEPT !.run.stages = Append(@, "merge"),
                        !.run.merge_input = c.run.audio_files]
    IN IF c.run.audio_files = << >>
       THEN [c1 EXCEPT !.exc = NoAudioFiles]
       ELSE IF media = "ok" /\ CanWrite(c1, story_id, StoryMp3)
       THEN [WriteFile(c1, story_id, StoryMp3, "data")
               EXCEPT !.run.returned = 4, !.exc = NotAwaitable]
       ELSE [c1 EXCEPT !.exc = MediaToolError]

\* ------------------------------------------------------------- actions
NextRun(r) ==
  /\ run[r].pc = "idle"
  /\ \A q \in Runs : q < r => run[q].pc # "idle"

NewStatusGenerating ==
  [ status |-> "generating", progress |-> "Starte Generierung...",
    title |-> NoneStr, progress_pct |-> NoPct ]

\* The status entry both start handlers store for the new id.
NewStatus ==
  [ status |-> "starting", progress |-> "Starte Generierung...",
    title |-> NoneStr, progress_pct |-> NoPct ]

\* str(uuid.uuid4())[:8]: a draw from the identifier space; nothing
\* compares it with the identifiers in use.  Identifiers that were never
\* drawn are interchangeable, so the draw is one of the identifiers drawn
\* before or the least one never drawn.
uuid4 ==
  LET used == DOMAIN generation_status
      fresh == Ids \ used
  IN used \cup {x \in fresh : \A y \in fresh : x <= y}

\* The body shared by the two start handlers: the status entry and
\* asyncio.create_task(_run_pipeline(...)).
create_task(r, story_id) ==
  /\ generation_status' = (story_id :> NewStatus) @@ generation_status
  /\ run' = [run EXCEPT ![r] = [@ EXCEPT !.pc = "created", !.id = story_id]]
  /\ last_call' = NoCall
  /\ UNCHANGED << stories, db_synced, dirs, files, clock >>

\* POST /api/stories/generate
start_generation(r) ==
  /\ NextRun(r)
  /\ \E story_id \in uuid4 : create_task(r, story_id)

\* POST /api/stories/generate-free
start_free_generation(r) ==
  /\ NextRun(r)
  /\ \E story_id \in uuid4 : create_task(r, story_id)

\* StoryMeta(id=story_id, ..., created_at=datetime.now()): the fields
\* models.StoryMeta declares; genre, style and voice are the parameters of
\* the request.
InitialMeta(story_id, created) ==
  [ id |-> story_id,
    title |-> "Schreibe Geschichte...", description |-> "Idee: ...",
    prompt |-> "prompt", genre |-> "Realismus", style |-> "Douglas Adams",
    voice_key |-> "voice", voice_name |-> "Unbekannt",
    duration_seconds |-> 0, chapter_count |-> 0, is_on_spotify |-> FALSE,
    image_url |-> NoneStr, status |-> "generating",
    progress |-> "Starte Generierung...", created_at |-> created ]

\* _run_pipeline from its first line to the suspension in the provider
\* call of the text stage: mkdir, initial record, first progress callback.
run_pipeline_begin(r) ==
  /\ run[r].pc = "created"
  /\ LET story_id == run[r].id
         c0 == Ctx(r)
         st1 == add_story(c0.st, story_id, InitialMeta(story_id, clock + 1))
         c1 == [c0 EXCEPT !.dirs = @ \cup {story_id},
                          !.st = st1,
                          !.snaps = {st1}]
         c2 == on_progress(c1, story_id, "generating_text",
                           "Schreibe Geschichte...", NoPct)
         c3 == [c2 EXCEPT !.run.pc = "text",
                          !.run.stages = Append(@, "text")]
     IN Commit(c3, r)
  /\ clock' = clock + 1

\* story_dir.mkdir raises (OSError): it is outside the try block, the
\* task ends with an unhandled exception.
run_pipeline_mkdir_fails(r) ==
  /\ run[r].pc = "created"
  /\ run' = [run EXCEPT ![r] = [@ EXCEPT !.pc = "dead"]]
  /\ last_call' = NoCall
  /\ UNCHANGED << generation_status, stories, db_synced, dirs, files, clock >>

\* The provider call either raises or returns a text.  Every returned text
\* becomes a story_data with a title, a synopsis and one chapter: the
\* parsed one, or the fallback built from the raw text when parsing fails
\* (story_generator.py 100-119); the model keeps one value for both.
ProviderOutcomes == {"returns", "raise"}

\* The provider call of the text stage returns: the rest of the text
\* stage, the title update, story.json, and the start of the audio stage.
text_returns(r) ==
  /\ run[r].pc = "text"
  /\ \E outcome \in ProviderOutcomes :
       LET story_id == run[r].id
           c0 == Ctx(r)
           title == "Titel"
           synopsis == "Zusammenfassung"
           c1 == [c0 EXCEPT !.gs[story_id].title = title,
                            !.run.returned = 1,
                            !.run.chapters = 1]
           found == get_by_id(c1.st, story_id)
           st2 == IF found
                  THEN [c1.st EXCEPT ![story_id] =
                          [@ EXCEPT !.title = title, !.description = synopsis]]
                  ELSE c1.st
           c2 == [c1 EXCEPT !.st = st2,
                            !.snaps = IF found THEN @ \cup {st2} ELSE @]
           c3 == write_text(c2, story_id, StoryJson)
           c4 == on_progress(c3, story_id, "generating_audio",
                             "Bereite Vertonung vor...", ProgressPrepareAudio)
           c5 == chapters_to_audio(c4, story_id)
           c6 == IF outcome = "raise"
                 THEN except_clause([c0 EXCEPT !.exc = ProviderError], story_id)
                 ELSE except_clause(c5, story_id)
       IN Commit(c6, r)
  /\ UNCHANGED clock

SynthesisOutcomes == {"ok", "empty", "raise"}

\* generate_tts_chunk for output file name: the file written (or not) and
\* the exception raised (or not).  The edge engine suspends in
\* communicate.save; the google and openai engines call their client
\* synchronously, which is the case where no other task takes a step
\* between the call and its return.
generate_tts_chunk(c, story_id, name, outcome) ==
  IF ~CanWrite(c, story_id, name) THEN [c EXCEPT !.exc = FileNotFound]
  ELSE IF outcome = "ok" THEN WriteFile(c, story_id, name, "data")
  ELSE IF outcome = "empty"
  THEN [WriteFile(c, story_id, name, "empty") EXCEPT !.exc = TtsError]
  ELSE [c EXCEPT !.exc = TtsError]

\* The synthesis call of chapter i+1 returns: append the chunk, next
\* iteration of the loop (or the title).
tts_returns(r) ==
  /\ run[r].pc = "tts"
  /\ \E outcome \in SynthesisOutcomes :
       LET story_id == run[r].id
           name == ChunkName(run[r].i)
           c1 == generate_tts_chunk(Ctx(r), story_id, name, outcome)
           c2 == IF c1.exc # NoExc THEN c1
                 ELSE [c1 EXCEPT !.run.audio_files = Append(@, name),
                                 !.run.written = Append(@, name),
                                 !.run.i = @ + 1]
           c3 == loop_head(c2, story_id)
       IN Commit(except_clause(c3, story_id), r)
  /\ UNCHANGED clock

MediaOutcomes == {"ok", "fail"}

\* The synthesis call of the title returns: merge and everything after it.
title_returns(r) ==
  /\ run[r].pc = "title"
  /\ \E outcome \in SynthesisOutcomes, media \in MediaOutcomes :
       LET story_id == run[r].id
           c1 == generate_tts_chunk(Ctx(r), story_id, TitleMp3, outcome)
           c2 == IF c1.exc # NoExc THEN c1 ELSE [c1 EXCEPT !.run.returned = 3]
           c3 == on_progress(c2, story_id, "processing",
                             "Mische Audio-Spuren...", ProgressMerge)
           c4 == merge_audio_files(c3, story_id, media)
       IN Commit(except_clause(c4, story_id), r)
  /\ UNCHANGED clock

\* POST /api/stories/{id}/spotify on a stored id (an unknown id is
\* answered 404 and changes nothing)
toggle_spotify(story_id, enabled) ==
  /\ get_by_id(stories, story_id)
  /\ stories' = [stories EXCEPT ![story_id].is_on_spotify = enabled]
  /\ save(TRUE, stories')
  /\ last_call' = NoCall
  /\ UNCHANGED << generation_status, dirs, files, run, clock >>

\* DELETE reclaiming the directory before it removes the record: when
\* rmtree raises part-way the record is still stored.
delete_story_dir_first(story_id) ==
  /\ get_by_id(stories, story_id)
  /\ story_id \in dirs
  /\ \E gone \in SUBSET DOMAIN files[story_id] :
       /\ ChunksDir \in gone =>
            \A n \in DOMAIN files[story_id] : IsChunk(n) => n \in gone
       /\ files' = [files EXCEPT ![story_id] = Remove(@, gone)]
  /\ last_call' = NoCall
  /\ UNCHANGED << generation_status, stories, db_synced, dirs, run, clock >>

\* DELETE /api/stories/{id} on a stored id: the record goes first, then
\* shutil.rmtree of the story directory, which either removes it or raises
\* part-way and leaves the directory with some of its files.
delete_story(story_id) ==
  /\ get_by_id(stories, story_id)
  /\ stories' = Remove(stories, {story_id})
  /\ save(TRUE, stories')
  /\ \/ /\ dirs' = dirs \ {story_id}
        /\ files' = [files EXCEPT ![story_id] = NoFiles]
     \/ /\ story_id \in dirs
        /\ \E gone \in SUBSET DOMAIN files[story_id] :
             /\ ChunksDir \in gone =>
                  \A n \in DOMAIN files[story_id] : IsChunk(n) => n \in gone
             /\ files' = [files EXCEPT ![story_id] = Remove(@, gone)]
        /\ dirs' = dirs
  /\ last_call' = NoCall
  /\ UNCHANGED << generation_status, run, clock >>

Next ==
  \/ \E r \in Runs : start_generation(r)
  \/ \E r \in Runs : start_free_generation(r)
  \/ \E r \in Runs : run_pipeline_begin(r)
  \/ \E r \in Runs : run_pipeline_mkdir_fails(r)
  \/ \E r \in Runs : text_returns(r)
  \/ \E r \in Runs : tts_returns(r)
  \/ \E r \in Runs : title_returns(r)
  \/ \E story_id \in Ids, enabled \in BOOLEAN : toggle_spotify(story_id, enabled)
  \/ \E story_id \in Ids : delete_story(story_id)

Spec == Init /\ [][Next]_vars

\* The event loop runs every task that is ready: the first step of a
\* created task is taken, and a task suspended in a collaborator call is
\* resumed when the call returns or raises, which it eventually does.
\* Requests (start, toggle, delete) may stop coming.
Fairness ==
  \A r \in Runs :
    /\ WF_vars(run_pipeline_begin(r) \/ run_pipeline_mkdir_fails(r))
    /\ WF_vars(text_returns(r))
    /\ WF_vars(tts_returns(r))
    /\ WF_vars(title_returns(r))

SpecLive == Spec /\ Fairness

\* -------------------------------------- chapters_to_audio on any chapter list
\* The content adapter always returns one chapter, so under Spec the audio
\* stage sees one segment.  SpecAudio starts one task at the call of
\* chapters_to_audio (main.py 259) with a chapter list of any length up to
\* MaxChapters; the record of the story is in the store or not.
AudioInit ==
  /\ generation_status =
       (1 :> [ status |-> "generating_audio",
               progress |-> "Bereite Vertonung vor...",
               title |-> "Titel", progress_pct |-> ProgressPrepareAudio ])
  /\ \/ stories = [x \in {} |-> 0]
     \/ stories = (1 :> [InitialMeta(1, 1) EXCEPT !.title = "Titel",
                                              !.description = "Zusammenfassung",
                                              !.progress = "Bereite Vertonung vor..."])
  /\ db_synced = TRUE
  /\ dirs = {1}
  /\ files = [id \in Ids |-> IF id = 1 THEN (StoryJson :> "data") ELSE NoFiles]
  /\ \E n \in 0..MaxChapters :
       run = [r \in Runs |->
                IF r = 1
                THEN [IdleRun EXCEPT !.pc = "audio", !.id = 1, !.chapters = n,
                                     !.stages = << "text" >>, !.returned = 1]
                ELSE IdleRun]
  /\ clock = 1
  /\ last_call = NoCall

\* The call of chapters_to_audio, up to its first suspension.
audio_stage_begins(r) ==
  /\ run[r].pc = "audio"
  /\ LET story_id == run[r].id
     IN Commit(except_clause(chapters_to_audio(Ctx(r), story_id), story_id), r)
  /\ UNCHANGED clock

AudioNext ==
  \/ \E r \in Runs : audio_stage_begins(r)
  \/ \E r \in Runs : tts_returns(r)
  \/ \E r \in Runs : title_returns(r)
  \/ \E story_id \in Ids, enabled \in BOOLEAN : toggle_spotify(story_id, enabled)
  \/ \E story_id \in Ids : delete_story(story_id)

SpecAudio == AudioInit /\ [][AudioNext]_vars

\* ------------------------------------------- merge_audio_files on any input
\* The assembler as a function of its arguments: the list of segment
\* files, the optional intro, outro and title paths, and the media tool
\* that fails (if any).  A clip is a file name with its duration in ms.
silence_between_ms == 2500

ClipMs == {k * 1000 : k \in 1..MaxClipSeconds}

SilenceMp3 == [ name |-> "silence.mp3", ms |-> silence_between_ms ]

\* An optional path argument: None, a path to no file, a path to a clip.
OptClips(name) ==
  { [ given |-> FALSE, exists |-> FALSE, name |-> name, ms |-> 0 ],
    [ given |-> TRUE, exists |-> FALSE, name |-> name, ms |-> 0 ] }
  \cup { [ given |-> TRUE, exists |-> TRUE, name |-> name, ms |-> d ] :
           d \in ClipMs }

\* "p and p.exists()"
path_exists(p) == p.given /\ p.exists

Clip(p) == [ name |-> p.name, ms |-> p.ms ]

\* the segment lists: segment k is chunk k, of any duration
SegLists ==
  UNION { { [k \in 1..n |-> [ name |-> ChapterFiles[k], ms |-> d[k] ]] :
              d \in [1..n -> ClipMs] } : n \in 0..MaxChapters }

MediaFailures == {"none", "create_silence", "concat", "ffprobe", "normalize"}

\* The loop over the segments without the silence between them.
chapter_lines_no_gap(audio_files, i, outro_path) ==
  [k \in 1..(Len(audio_files) - i) |-> audio_files[i + k]]

\* "for i, af in enumerate(audio_files)" from index i (counted from 0) on
RECURSIVE chapter_lines(_, _, _)
chapter_lines(audio_files, i, outro_path) ==
  IF i >= Len(audio_files) THEN << >>
  ELSE LET af == audio_files[i + 1]
           gap == IF i < Len(audio_files) - 1 THEN << SilenceMp3 >>
                  ELSE IF path_exists(outro_path) THEN << SilenceMp3 >>
                  ELSE << >>
       IN << af >> \o gap \o chapter_lines(audio_files, i + 1, outro_path)

\* the lines of the concat list, in the order they are appended
concat_lines(audio_files, intro_path, outro_path, title_path) ==
  LET l1 == IF path_exists(intro_path)
            THEN << Clip(intro_path), SilenceMp3 >> ELSE << >>
      l2 == IF path_exists(title_path)
            THEN l1 \o << Clip(title_path), SilenceMp3 >> ELSE l1
      l3 == l2 \o chapter_lines(audio_files, 0, outro_path)
  IN IF path_exists(outro_path) THEN Append(l3, Clip(outro_path)) ELSE l3

\* _normalize_audio: ffprobe for the duration (float() of its output
\* raises when the probe failed), then ffmpeg with check=True.
normalize_audio(media) ==
  IF media = "ffprobe"
  THEN [ tools |-> << "ffprobe" >>, exc |-> MediaToolError ]
  ELSE IF media = "normalize"
  THEN [ tools |-> << "ffprobe", "normalize" >>, exc |-> MediaToolError ]
  ELSE [ tools |-> << "ffprobe", "normalize" >>, exc |-> NoExc ]

\* More than one segment: the silence clip, the concat list, ffmpeg
\* concat, normalization of the concatenated file.
merge_concat(audio_files, intro_path, outro_path, title_path, media) ==
  IF media = "create_silence"
  THEN [ lines |-> << >>, tools |-> << "create_silence" >>,
         exc |-> MediaToolError, content |-> << >> ]
  ELSE
    LET lines == concat_lines(audio_files, intro_path, outro_path, title_path)
        n == normalize_audio(media)
    IN IF media = "concat"
       THEN [ lines |-> lines, tools |-> << "create_silence", "concat" >>,
              exc |-> MediaToolError, content |-> << >> ]
       ELSE [ lines |-> lines,
              tools |-> << "create_silence", "concat" >> \o n.tools,
              exc |-> n.exc,
              content |-> IF n.exc = NoExc THEN lines ELSE << >> ]

\* Exactly one segment: that file is normalized into the output.
merge_single(audio_files, media) ==
  LET n == normalize_audio(media)
  IN [ lines |-> << >>, tools |-> n.tools, exc |-> n.exc,
       content |-> IF n.exc = NoExc THEN << audio_files[1] >> ELSE << >> ]

\* The assembler without its check for an empty segment list.
merge_result_unchecked(audio_files, intro_path, outro_path, title_path, media) ==
  IF Len(audio_files) = 1 THEN merge_single(audio_files, media)
  ELSE merge_concat(audio_files, intro_path, outro_path, title_path, media)

\* merge_audio_files: the concat list built (lines), the media tools run
\* in order (tools), the exception raised (exc) and the clips whose audio
\* the output file holds in order (content; empty when no output was
\* written).
merge_result(audio_files, intro_path, outro_path, title_path, media) ==
  IF audio_files = << >>
  THEN [ lines |-> << >>, tools |-> << >>, exc |-> NoAudioFiles,
         content |-> << >> ]
  ELSE IF Len(audio_files) = 1 THEN merge_single(audio_files, media)
  ELSE merge_concat(audio_files, intro_path, outro_path, title_path, media)

\* the duration of a sequence of clips played one after the other
RECURSIVE duration_ms(_)
duration_ms(clips) ==
  IF clips = << >> THEN 0 ELSE Head(clips).ms + duration_ms(Tail(clips))

\* One call of merge_audio_files with story.mp3 of story 1 as output_path
\* (the function keeps no state between calls: one call per behaviour).
call_merge_audio_files ==
  /\ last_call = NoCall
  /\ \E audio_files \in SegLists, intro_path \in OptClips("intro.mp3"),
     outro_path \in OptClips("outro.mp3"), title_path \in OptClips(TitleMp3),
     media \in MediaFailures :
    LET res == merge_result(audio_files, intro_path, outro_path, title_path,
                            media)
    IN /\ last_call' =
            [ op |-> "merge_audio_files", audio_files |-> audio_files,
              intro_path |-> intro_path, outro_path |-> outro_path,
              title_path |-> title_path, media |-> media,
              lines |-> res.lines, tools |-> res.tools, exc |-> res.exc,
              content |-> res.content ]
       /\ files' = IF res.content # << >>
                   THEN [files EXCEPT ![1] = (StoryMp3 :> "data") @@ @]
                   ELSE files
       /\ UNCHANGED << generation_status, stories, db_synced, dirs, run, clock >>

\* The directory of story 1 exists; story.mp3 is not there yet or is the
\* empty file an earlier failed run of the media tool left.
MergeInit ==
  /\ generation_status = [x \in {} |-> 0]
  /\ stories = [x \in {} |-> 0]
  /\ db_synced = TRUE
  /\ dirs = {1}
  /\ files \in { [id \in Ids |-> NoFiles],
                  [id \in Ids |-> IF id = 1 THEN (StoryMp3 :> "empty")
                                            ELSE NoFiles] }
  /\ run = [r \in Runs |-> IdleRun]
  /\ clock = 0
  /\ last_call = NoCall

MergeNext == call_merge_audio_files

SpecMerge == MergeInit /\ [][MergeNext]_vars

\* ------------------------------------------------- the store on any input
\* The functions of StoryStore and the not-found answers of the handlers
\* built on them, called with any id and any record in any order.
\* self._stories.get(story_id): the record, or None
stories_get(st, story_id) ==
  IF story_id \in DOMAIN st THEN st[story_id] ELSE NoneStr

\* the records handed to add_story: any creation time, either flag
StoryMetas(story_id) ==
  { [InitialMeta(story_id, t) EXCEPT !.is_on_spotify = b] :
      t \in 1..MaxTime, b \in BOOLEAN }

\* update_spotify_status setting the flag of every record.
update_spotify_status_all(st, story_id, enabled) ==
  IF story_id \in DOMAIN st
  THEN [ st |-> [x \in DOMAIN st |-> [st[x] EXCEPT !.is_on_spotify = enabled]],
         saved |-> TRUE, ret |-> TRUE ]
  ELSE [ st |-> st, saved |-> FALSE, ret |-> FALSE ]

\* StoryStore.update_spotify_status: the mapping afterwards, whether
\* save() was called, the value returned
update_spotify_status(st, story_id, enabled) ==
  IF story_id \in DOMAIN st
  THEN [ st |-> [st EXCEPT ![story_id].is_on_spotify = enabled],
         saved |-> TRUE, ret |-> TRUE ]
  ELSE [ st |-> st, saved |-> FALSE, ret |-> FALSE ]

\* StoryStore.delete_story
store_delete_story(st, story_id) ==
  IF story_id \in DOMAIN st
  THEN [ st |-> Remove(st, {story_id}), saved |-> TRUE, ret |-> TRUE ]
  ELSE [ st |-> st, saved |-> FALSE, ret |-> FALSE ]

\* store.add_story(story) with story.id = story_id
call_add_story(story_id, story) ==
  /\ stories' = add_story(stories, story_id, story)
  /\ save(TRUE, stories')
  /\ last_call' = [ op |-> "add_story", story_id |-> story_id,
                    story |-> story ]
  /\ UNCHANGED << generation_status, dirs, files, run, clock >>

\* store.update_spotify_status(story_id, enabled)
call_update_spotify_status(story_id, enabled) ==
  LET res == update_spotify_status(stories, story_id, enabled)
  IN /\ stories' = res.st
     /\ save(res.saved, res.st)
     /\ last_call' = [ op |-> "update_spotify_status", story_id |-> story_id,
                       enabled |-> enabled, ret |-> res.ret ]
     /\ UNCHANGED << generation_status, dirs, files, run, clock >>

\* store.delete_story(story_id)
call_delete_story(story_id) ==
  LET res == store_delete_story(stories, story_id)
  IN /\ stories' = res.st
     /\ save(res.saved, res.st)
     /\ last_call' = [ op |-> "delete_story", story_id |-> story_id,
                       ret |-> res.ret ]
     /\ UNCHANGED << generation_status, dirs, files, run, clock >>

\* POST /api/stories/{id}/spotify answered 404: update_spotify_status
\* returned False, HTTPException is raised
toggle_spotify_not_found(story_id, enabled) ==
  LET res == update_spotify_status(stories, story_id, enabled)
  IN /\ ~res.ret
     /\ stories' = res.st
     /\ save(res.saved, res.st)
     /\ last_call' = [ op |-> "toggle_spotify", story_id |-> story_id,
                       enabled |-> enabled, response |-> 404 ]
     /\ UNCHANGED << generation_status, dirs, files, run, clock >>

\* DELETE /api/stories/{id} answered 404: store.delete_story returned
\* False, HTTPException is raised before the directory is looked at
delete_story_not_found(story_id) ==
  LET res == store_delete_story(stories, story_id)
  IN /\ ~res.ret
     /\ stories' = res.st
     /\ save(res.saved, res.st)
     /\ last_call' = [ op |-> "delete_story_request", story_id |-> story_id,
                       response |-> 404 ]
     /\ UNCHANGED << generation_status, dirs, files, run, clock >>

\* An empty store; every id has a directory on disk (left by earlier
\* runs), so a request for an id the store does not hold has one to spare.
StoreInit ==
  /\ generation_status = [x \in {} |-> 0]
  /\ stories = [x \in {} |-> 0]
  /\ db_synced = TRUE
  /\ dirs = Ids
  /\ files = [id \in Ids |-> (StoryJson :> "data")]
  /\ run = [r \in Runs |-> IdleRun]
  /\ clock = 0
  /\ last_call = NoCall

StoreNext ==
  \/ \E story_id \in Ids : \E story \in StoryMetas(story_id) :
       call_add_story(story_id, story)
  \/ \E story_id \in Ids, enabled \in BOOLEAN :
       call_update_spotify_status(story_id, enabled)
  \/ \E story_id \in Ids : call_delete_story(story_id)
  \/ \E story_id \in Ids, enabled \in BOOLEAN :
       toggle_spotify_not_found(story_id, enabled)
  \/ \E story_id \in Ids : delete_story_not_found(story_id)
  \/ \E story_id \in Ids, enabled \in BOOLEAN : toggle_spotify(story_id, enabled)

SpecStore == StoreInit /\ [][StoreNext]_vars

\* ------------------------------------------------ StoryStore._load on any file
\* The backing file at start-up: missing, unreadable (read_text raises),
\* not JSON or not a JSON object (json.loads or .items() raises), or a
\* mapping whose items are read in order.  An item is a StoryMeta that
\* validates or data StoryMeta(**story_data) rejects.
FileRecords(story_id) ==
  { [InitialMeta(story_id, t) EXCEPT !.is_on_spotify = b, !.status = s] :
      t \in 1..MaxTime, b \in BOOLEAN, s \in {"generating", "done", "error"} }

FileItems(id) ==
  { [ story_id |-> id, valid |-> TRUE, data |-> m ] : m \in FileRecords(id) }
  \cup { [ story_id |-> id, valid |-> FALSE, data |-> NoneStr ] }

\* the item lists of n items over distinct ids (a JSON object has each key
\* once)
RECURSIVE ItemLists(_, _)
ItemLists(ids, n) ==
  IF n = 0 THEN { << >> }
  ELSE UNION { { <<item>> \o rest : item \in FileItems(id),
                                    rest \in ItemLists(ids \ {id}, n - 1) } :
               id \in ids }

BackingFiles(ids) ==
  { [ kind |-> "missing", items |-> << >> ],
    [ kind |-> "unreadable", items |-> << >> ],
    [ kind |-> "invalid", items |-> << >> ] }
  \cup UNION { { [ kind |-> "mapping", items |-> e ] : e \in ItemLists(ids, n) } :
               n \in 0..Cardinality(ids) }

\* "for story_id, story_data in data.items()": the mapping after the
\* loop and whether StoryMeta(**story_data) raised on the way
RECURSIVE load_items(_, _)
load_items(items, st) ==
  IF items = << >> THEN [ st |-> st, raised |-> FALSE ]
  ELSE IF ~Head(items).valid THEN [ st |-> st, raised |-> TRUE ]
  ELSE load_items(Tail(items),
                  (Head(items).story_id :> Head(items).data) @@ st)

\* _load keeping the records read before the one that failed.
store_load_partial(file) ==
  IF file.kind = "mapping"
  THEN [ st |-> load_items(file.items, << >>).st, exc |-> NoExc ]
  ELSE [ st |-> << >>, exc |-> NoExc ]

\* StoryStore._load: the mapping in memory afterwards and the exception
\* that leaves the constructor (none: whatever is raised inside the try
\* is logged and the mapping is reset)
store_load(file) ==
  IF file.kind = "mapping"
  THEN LET res == load_items(file.items, << >>)
       IN [ st |-> IF res.raised THEN << >> ELSE res.st, exc |-> NoExc ]
  ELSE [ st |-> << >>, exc |-> NoExc ]

\* StoryStore(db_path) at start-up
call_load ==
  /\ last_call = NoCall
  /\ \E file \in BackingFiles(Ids) :
       LET res == store_load(file)
       IN /\ stories' = res.st
          /\ db_synced' = \/ file.kind = "missing"
                          \/ /\ file.kind = "mapping"
                             /\ \A k \in 1..Len(file.items) : file.items[k].valid
          /\ last_call' = [ op |-> "_load", file |-> file, exc |-> res.exc ]
  /\ UNCHANGED << generation_status, dirs, files, run, clock >>

LoadNext == call_load

SpecLoad == Init /\ [][LoadNext]_vars

\* --------------------------------------------- generate_full_story on its own
\* Requested reading times: the request defaults (5 and 20 minutes) and
\* both sides of the "target_minutes <= 12" test.
TargetMinutes == {5, 12, 13, 20}

NoneTextError == "AttributeError: 'NoneType' object has no attribute 'strip'"
NameErrorAsyncio == "NameError: name 'asyncio' is not defined"

\* A response text is a sequence of tokens: whitespace, the markdown fence
\* markers (three backticks, with or without the word json) and at most
\* one body.  A body is what json.loads makes of it: no JSON
\* at all, JSON that is not an object, or an object with or without the
\* keys the code reads (full_text absent, a string, an object with its own
\* full_text, an object without one).
Blank == [ kind |-> "blank" ]
FenceJson == [ kind |-> "fence_json" ]
Fence == [ kind |-> "fence" ]

JsonBodies ==
  { [ kind |-> "garbage" ], [ kind |-> "list" ] }
  \cup { [ kind |-> "object", title |-> t, synopsis |-> s, full_text |-> f ] :
           t \in {"absent", "Titel"},
           s \in {"absent", "Zusammenfassung"},
           f \in {"absent", "str", "dict", "dict_plain"} }

ResponseTexts ==
  { lead \o open \o body \o close :
      lead \in {<< >>, <<Blank>>},
      open \in {<< >>, <<FenceJson>>, <<Fence>>},
      body \in {<< >>} \cup { <<b>> : b \in JsonBodies },
      close \in {<< >>, <<Fence>>} }

\* client.models.generate_content: raises, or returns a response whose
\* text is None or a string
ProviderResponses ==
  { [ outcome |-> "raise", text |-> << >> ],
    [ outcome |-> "none", text |-> << >> ] }
  \cup { [ outcome |-> "text", text |-> t ] : t \in ResponseTexts }

\* str.strip()
RECURSIVE lstrip(_)
lstrip(text) ==
  IF text # << >> /\ Head(text) = Blank THEN lstrip(Tail(text)) ELSE text

RECURSIVE rstrip(_)
rstrip(text) ==
  IF text # << >> /\ text[Len(text)] = Blank
  THEN rstrip(SubSeq(text, 1, Len(text) - 1))
  ELSE text

strip(text) == rstrip(lstrip(text))

\* str.startswith(prefix): the json fence begins with the plain fence too
startswith(text, prefix) ==
  /\ text # << >>
  /\ \/ Head(text) = prefix
     \/ prefix = Fence /\ Head(text) = FenceJson

\* str.replace(old, "", count); removing the plain fence from the json
\* fence leaves the word json, which is no JSON
RECURSIVE replace(_, _, _)
replace(text, old, count) ==
  IF text = << >> \/ count = 0 THEN text
  ELSE IF Head(text) = old THEN replace(Tail(text), old, count - 1)
  ELSE IF old = Fence /\ Head(text) = FenceJson
       THEN <<[ kind |-> "garbage" ]>> \o replace(Tail(text), old, count - 1)
  ELSE <<Head(text)>> \o replace(Tail(text), old, count)

\* "Remove markdown code blocks if the model included them"
remove_fences(text) ==
  IF startswith(text, FenceJson)
  THEN strip(replace(replace(text, FenceJson, 1), Fence, 1))
  ELSE IF startswith(text, Fence)
  THEN strip(replace(text, Fence, 2))
  ELSE text

\* json.loads followed by the data.get calls: raises unless the text is
\* exactly one body that is a JSON object
parses(text) == Len(text) = 1 /\ text[1] \in JsonBodies /\ text[1].kind = "object"

get(value, default) == IF value = "absent" THEN default ELSE value

\* story_content: data.get("full_text", ""), looked into when it is a dict
story_content(data) ==
  CASE data.full_text = "absent" -> ""
    [] data.full_text = "str" -> "Text der Geschichte..."
    [] data.full_text = "dict" -> "inner full_text"
    [] data.full_text = "dict_plain" -> "str(story_content)"

\* _generate_single_pass after the provider call: the returned dict, or
\* the exception that propagates
single_pass_result(response) ==
  IF response.outcome = "raise" THEN [ exc |-> ProviderError, story |-> NoneStr ]
  ELSE IF response.outcome = "none" THEN [ exc |-> NoneTextError, story |-> NoneStr ]
  ELSE LET text == remove_fences(strip(response.text))
       IN IF parses(text)
          THEN [ exc |-> NoExc,
                 story |-> [ title |-> get(text[1].title, "Eine neue Geschichte"),
                             synopsis |-> get(text[1].synopsis, "Kurzgeschichte"),
                             chapters |-> <<[ title |-> "Geschichte",
                                              text |-> story_content(text[1]) ]>> ] ]
          ELSE [ exc |-> NoExc,
                 story |-> [ title |-> "Anomalie im Labor",
                             synopsis |-> "Die Geschichte konnte nicht korrekt formatiert werden.",
                             chapters |-> <<[ title |-> "Text", text |-> text ]>> ] ]

\* _generate_multi_pass where a failed outline propagates.
multi_pass_no_fallback(exc, response) ==
  IF exc # NoExc
  THEN [ exc |-> exc, story |-> NoneStr ]
  ELSE single_pass_result(response)

\* The outline step of _generate_multi_pass: the module imports neither
\* asyncio nor json (both are imported inside _generate_single_pass only),
\* so evaluating asyncio.to_thread raises NameError inside the try before
\* the provider is called.
outline_exc == NameErrorAsyncio

\* _generate_multi_pass: whatever the outline step raises is caught and
\* _generate_single_pass is awaited instead; the writing loop behind the
\* try is never reached
multi_pass_result(exc, response) == single_pass_result(response)

\* generate_full_story
full_story_result(target_minutes, response) ==
  IF target_minutes <= 12
  THEN single_pass_result(response)
  ELSE multi_pass_result(outline_exc, response)

\* The generate_content calls _generate_single_pass makes: one, with the
\* master prompt, which asks for target_minutes * 150 words
single_pass_calls(target_minutes) ==
  << [ prompt |-> "master_prompt", words |-> target_minutes * 150 ] >>

\* The generate_content calls _generate_multi_pass makes: the outline
\* prompt is built but the step raises before the provider is called, and
\* the fallback makes the single-pass call
multi_pass_calls(exc, target_minutes) == single_pass_calls(target_minutes)

provider_calls(target_minutes) ==
  IF target_minutes <= 12
  THEN single_pass_calls(target_minutes)
  ELSE multi_pass_calls(outline_exc, target_minutes)

\* one call of generate_full_story with the response the provider gives
\* to the (single-pass) generate_content call
call_generate_full_story ==
  /\ last_call = NoCall
  /\ \E target_minutes \in TargetMinutes : \E response \in ProviderResponses :
       LET res == full_story_result(target_minutes, response)
       IN last_call' = [ op |-> "generate_full_story",
                         target_minutes |-> target_minutes,
                         outline_exc |-> IF target_minutes <= 12 THEN NoExc
                                         ELSE outline_exc,
                         response |-> response,
                         calls |-> provider_calls(target_minutes),
                         exc |-> res.exc,
                         story |-> res.story ]
  /\ UNCHANGED << generation_status, stories, db_synced, dirs, files, run, clock >>

TextNext == call_generate_full_story

SpecText == Init /\ [][TextNext]_vars

\* ================================================================ claims
Started(r) == run[r].pc # "idle"
Ended(r) == run[r].pc = "ended"

\* the values of StoryMeta.status
DurableStatuses == {"generating", "done", "error"}

\* C1: the durable status of a stored record is always one of generating,
\* done, error; a step changes it only from generating to done or to error,
\* and never changes it once it is done or error.  A record is the one
\* created by one run (same id, same created_at).
C1_DurableStatusTransitions ==
  [][ \A id \in DOMAIN stories' :
        /\ stories'[id].status \in DurableStatuses
        /\ (id \in DOMAIN stories
              /\ stories[id].created_at = stories'[id].created_at
              /\ stories'[id].status # stories[id].status)
           => /\ stories[id].status = "generating"
              /\ stories'[id].status \in {"done", "error"} ]_vars

\* C1 witness: a record that went to error, was toggled, and whose run ended
C1_Witness ==
  \E r \in Runs :
    /\ Ended(r)
    /\ run[r].id \in DOMAIN stories
    /\ stories[run[r].id].status = "error"
    /\ stories[run[r].id].is_on_spotify

\* the values of the status served by poll_status (StoryStatus.status)
EphemeralStatuses ==
  {"starting", "generating_text", "generating_audio", "processing", "done", "error"}

\* C2: the ephemeral status served by poll_status takes only the values
\* starting, generating_text, generating_audio, processing, done, error.
C2_EphemeralStatusValues ==
  \A id \in DOMAIN generation_status :
    get_status(id).status \in EphemeralStatuses

\* the exceptions raised by the content, speech and assembler collaborators
CollaboratorErrors == {ProviderError, TtsError, MediaToolError}

\* C3: a run in which every collaborator succeeded ends with poll_status
\* done and, if its record is stored, with the durable status done.
C3_SuccessEndsDone ==
  \A r \in Runs :
    (Ended(r) /\ run[r].exc \notin CollaboratorErrors)
    => /\ get_status(run[r].id).status = "done"
       /\ run[r].id \in DOMAIN stories => stories[run[r].id].status = "done"

\* The files the calls of one step of run r write: story.json and the chunk
\* directory after the text call, the chunk of the pending segment, the
\* title chunk and the merged file.
StepOutputs(r) ==
  CASE run[r].pc = "text" -> {StoryJson, ChunksDir}
    [] run[r].pc = "audio" -> {ChunksDir}
    [] run[r].pc = "tts" -> {ChapterFiles[run[r].i + 1]}
    [] run[r].pc = "title" -> {TitleMp3, StoryMp3}
    [] OTHER -> {}

\* C4: the step in which an exception ends a run sets status error and the
\* message on the ephemeral status and on the stored record of that id,
\* deletes no file and no directory and changes no file other than the
\* outputs of the stage calls of that step; an ended run takes no further
\* step.
C4_ErrorPath ==
  [][ \A r \in Runs :
        /\ (~Ended(r) /\ run'[r].pc = "ended") =>
             LET id == run[r].id
                 msg == Fehler(run'[r].exc)
             IN /\ run'[r].exc # NoExc
                /\ generation_status'[id].status = "error"
                /\ generation_status'[id].progress = msg
                /\ id \in DOMAIN stories =>
                     /\ id \in DOMAIN stories'
                     /\ stories'[id].status = "error"
                     /\ stories'[id].progress = msg
                /\ id \notin DOMAIN stories => stories' = stories
                /\ dirs \subseteq dirs'
                /\ \A x \in Ids : \A n \in DOMAIN files[x] :
                     /\ n \in DOMAIN files'[x]
                     /\ files'[x][n] # files[x][n] =>
                          (x = id /\ n \in StepOutputs(r))
        /\ Ended(r) => run'[r] = run[r] ]_vars

\* C4 witness: a run ended by a failed synthesis call after the text
\* artifact was written, with its record in the store
C4_Witness ==
  \E r \in Runs :
    /\ Ended(r)
    /\ run[r].exc = TtsError
    /\ StoryJson \in DOMAIN files[run[r].id]
    /\ run[r].id \in DOMAIN stories
    /\ stories[run[r].id].status = "error"

\* C5: no run is ended by the store write-back of a progress update.
C5_ProgressFailureNeverAborts ==
  \A r \in Runs : run[r].exc # NoFieldError

\* C6: a run whose text, audio and assembly stages succeeded does not end
\* in error, whatever the image adapter does.
C6_ImageOnlyNonFatal ==
  \A r \in Runs :
    (Ended(r) /\ run[r].returned = 4)
    => get_status(run[r].id).status # "error"

\* C7: no two runs are started with the same story_id.
C7_FreshStoryId ==
  \A r1, r2 \in Runs :
    (r1 # r2 /\ Started(r1) /\ Started(r2)) => run[r1].id # run[r2].id

StageOrder == << "text", "segments", "title", "merge", "image", "finalize" >>

\* C9: the stages of a run are entered in the order text, segments, title,
\* merge, image, finalize, each at most once and each only after the one
\* before it has returned.
C9_StageOrder ==
  \A r \in Runs :
    LET s == run[r].stages
    IN /\ Len(s) <= Len(StageOrder)
       /\ \A k \in 1..Len(s) : s[k] = StageOrder[k]
       /\ Len(s) <= run[r].returned + 1

\* C9 witness: a run that entered merge after text, segments and title
C9_Witness ==
  \E r \in Runs : run[r].stages = << "text", "segments", "title", "merge" >>

\* C10: chunk k of the list is the file named by position k; while the
\* call for segment i+1 is pending the chunks of segments 1..i, and only
\* they, have been written and the calls made are those of segments
\* 1..i+1 in order; merge receives exactly the N chunks in segment order
\* after N segment calls and one title call.
C10_SegmentOrder ==
  \A r \in Runs :
    LET a == run[r].audio_files
        n == run[r].chapters
    IN /\ \A k \in 1..Len(a) : a[k] = ChapterFiles[k]
       /\ run[r].written = a
       /\ run[r].pc = "tts" =>
            /\ Len(a) = run[r].i
            /\ run[r].tts_calls = [k \in 1..(run[r].i + 1) |-> k]
       /\ run[r].merge_input # << >> =>
            /\ run[r].merge_input = [k \in 1..n |-> ChapterFiles[k]]
            /\ run[r].tts_calls = [k \in 1..(n + 1) |-> IF k <= n THEN k ELSE 0]

\* C10 witness: merge was handed the chunks of three segments
C10_Witness ==
  \E r \in Runs :
    /\ run[r].chapters = 3
    /\ Len(run[r].merge_input) = 3
    /\ Len(run[r].stages) = 4

\* C11: the step in which the text call of a run returns puts the generated
\* title on the ephemeral status and, if the record is stored, the title
\* and the synopsis on the record; the step in which the first synthesis
\* call of a run starts comes no earlier, and after it story.json is in
\* the story directory and the ephemeral status and the stored record (if
\* any) carry the title; the step that ends a run after a synthesis call
\* leaves story.json in place.
C11_TextSavedBeforeAudio ==
  [][ \A r \in Runs :
        LET id == run[r].id
            titled ==
              /\ generation_status'[id].title = "Titel"
              /\ id \in DOMAIN stories' =>
                   /\ stories'[id].title = "Titel"
                   /\ stories'[id].description = "Zusammenfassung"
        IN /\ (run[r].returned = 0 /\ run'[r].returned >= 1) => titled
           /\ (run[r].tts_calls = << >> /\ run'[r].tts_calls # << >>) =>
                /\ run'[r].returned >= 1
                /\ StoryJson \in DOMAIN files'[id]
                /\ files'[id][StoryJson] = "data"
                /\ titled
           /\ (run[r].tts_calls # << >> /\ ~Ended(r) /\ run'[r].pc = "ended"
                 /\ StoryJson \in DOMAIN files[id]) =>
                StoryJson \in DOMAIN files'[id] ]_vars

\* C11 witness: a synthesis call is pending, story.json is in the story
\* directory, the ephemeral status and a stored record carry the title
C11_Witness ==
  \E r \in Runs :
    /\ run[r].pc = "tts"
    /\ StoryJson \in DOMAIN files[run[r].id]
    /\ get_status(run[r].id).title = "Titel"
    /\ run[r].id \in DOMAIN stories
    /\ stories[run[r].id].title = "Titel"

\* no synthesis call of any run has returned without raising
NoSpeech ==
  \A r \in Runs : run[r].written = << >> /\ run[r].returned < 3

\* C12: as long as every synthesis call made has raised, the first call of
\* a run ends that run (it makes no second call), the step that ends a run
\* sets the durable status of its stored record to error, no stored record
\* has an image_url, no run has entered the merge or the image stage, and
\* no story directory holds story.mp3.
C12_SpeechDown ==
  [][ NoSpeech' =>
        /\ \A id \in Ids : StoryMp3 \notin DOMAIN files'[id]
        /\ \A id \in DOMAIN stories' : stories'[id].image_url = NoneStr
        /\ \A r \in Runs :
             /\ \A k \in 1..Len(run'[r].stages) :
                  run'[r].stages[k] \notin {"merge", "image", "finalize"}
             /\ Len(run'[r].tts_calls) <= 1
             /\ (run[r].pc = "tts" /\ run'[r].pc # "tts") =>
                  /\ run'[r].pc = "ended"
                  /\ run'[r].exc \in {TtsError, FileNotFound}
             /\ (~Ended(r) /\ run'[r].pc = "ended"
                   /\ run[r].id \in DOMAIN stories) =>
                  /\ run[r].id \in DOMAIN stories'
                  /\ stories'[run[r].id].status = "error" ]_vars

\* C12 witness: the only synthesis call of a run raised, no call of any
\* run succeeded, and the record of the story is stored with status error
C12_Witness ==
  \E r \in Runs :
    /\ NoSpeech
    /\ Ended(r)
    /\ run[r].exc = TtsError
    /\ run[r].tts_calls = << 1 >>
    /\ run[r].id \in DOMAIN stories
    /\ stories[run[r].id].status = "error"
    /\ stories[run[r].id].image_url = NoneStr


\* the last step was a call of merge_audio_files
IsMerge == last_call.op = "merge_audio_files"

\* The play-list of the specification for the arguments of the call:
\* [intro, silence]? [title, silence]? the segments with one silence
\* between neighbours, [silence, outro]?
Leading(p) == IF path_exists(p) THEN << Clip(p), SilenceMp3 >> ELSE << >>
Trailing(p) == IF path_exists(p) THEN << SilenceMp3, Clip(p) >> ELSE << >>
Interleaved(segs) ==
  [k \in 1..(2 * Len(segs) - 1) |->
     IF k % 2 = 1 THEN segs[(k + 1) \div 2] ELSE SilenceMp3]
PlayList ==
  Leading(last_call.intro_path) \o Leading(last_call.title_path)
    \o Interleaved(last_call.audio_files) \o Trailing(last_call.outro_path)

AnyExtra ==
  \/ path_exists(last_call.intro_path)
  \/ path_exists(last_call.outro_path)
  \/ path_exists(last_call.title_path)

Count(seq, x) == Cardinality({k \in 1..Len(seq) : seq[k] = x})

\* C13: a merge that wrote its output without concatenation had exactly
\* one segment and no present intro, outro or title; the output of a merge
\* of one segment with a present intro, outro or title holds those clips
\* around the segment.
C13_ShortcutOnlyWhenBare ==
  (IsMerge /\ last_call.exc = NoExc) =>
    /\ Count(last_call.tools, "concat") = 0 =>
         (Len(last_call.audio_files) = 1 /\ ~AnyExtra)
    /\ (Len(last_call.audio_files) = 1 /\ AnyExtra) =>
         last_call.content = PlayList

\* C14: for two or more segments the concat list is the play-list of the
\* specification, whatever intro, title and outro are (None, a path to no
\* file, a clip); the silence clip is created once, before anything else;
\* without a failing media tool the call raises nothing and the output
\* holds the play-list.
C14_PlayList ==
  (IsMerge /\ Len(last_call.audio_files) >= 2) =>
    /\ Count(last_call.tools, "create_silence") = 1
    /\ last_call.tools[1] = "create_silence"
    /\ last_call.media # "create_silence" =>
         /\ last_call.lines = PlayList
         /\ Count(last_call.lines, SilenceMp3) =
              (Len(last_call.audio_files) - 1)
              + Cardinality({p \in {last_call.intro_path, last_call.title_path,
                                    last_call.outro_path} : path_exists(p)})
    /\ last_call.media = "none" =>
         /\ last_call.exc = NoExc
         /\ last_call.content = PlayList

\* C14 witness: three segments, an intro clip, a title path to no file and
\* an outro clip, merged to intro, silence, s1, silence, s2, silence, s3,
\* silence, outro
C14_Witness ==
  /\ IsMerge
  /\ Len(last_call.audio_files) = 3
  /\ path_exists(last_call.intro_path)
  /\ last_call.title_path.given /\ ~last_call.title_path.exists
  /\ path_exists(last_call.outro_path)
  /\ last_call.exc = NoExc
  /\ Len(last_call.content) = 9
  /\ last_call.content[1].name = "intro.mp3"
  /\ last_call.content[9].name = "outro.mp3"
  /\ StoryMp3 \in DOMAIN files[1] /\ files[1][StoryMp3] = "data"

\* C15: a call with no segment raises the invalid-input error, runs no
\* media tool and leaves the output file as it was (absent, or with its
\* old content), whatever intro, outro and title are.
C15_EmptyInput ==
  [][ (last_call'.op = "merge_audio_files" /\ last_call'.audio_files = << >>) =>
        /\ last_call'.exc = NoAudioFiles
        /\ last_call'.tools = << >>
        /\ last_call'.content = << >>
        /\ files' = files ]_vars

\* C15 witness: a call with no segment, all three optional clips present
\* and an old output file in place
C15_Witness ==
  /\ IsMerge
  /\ last_call.audio_files = << >>
  /\ path_exists(last_call.intro_path)
  /\ path_exists(last_call.outro_path)
  /\ path_exists(last_call.title_path)
  /\ last_call.exc = NoAudioFiles
  /\ StoryMp3 \in DOMAIN files[1] /\ files[1][StoryMp3] = "empty"

\* C16: for one or more segments the duration of what a successful merge
\* wrote is the sum of the segment durations, silence_between_ms for each
\* gap (one between neighbouring segments, one per present intro, title and
\* outro) and the durations of the present intro, title and outro.
C16_DurationLaw ==
  (IsMerge /\ Len(last_call.audio_files) >= 1 /\ last_call.exc = NoExc) =>
    LET extras == {p \in {last_call.intro_path, last_call.title_path,
                          last_call.outro_path} : path_exists(p)}
        gaps == (Len(last_call.audio_files) - 1) + Cardinality(extras)
        Ms(p) == IF path_exists(p) THEN p.ms ELSE 0
    IN duration_ms(last_call.content) =
         duration_ms(last_call.audio_files) + gaps * silence_between_ms
         + Ms(last_call.intro_path) + Ms(last_call.title_path)
         + Ms(last_call.outro_path)

\* C17: after add_story(r), get(r.id) is r in all fields, whatever was
\* stored under that id before, and get of every other id is what it was;
\* after delete_story(id), get(id) is None, get of every other id is what
\* it was, and the call returned whether the id was stored.
C17_StoreRoundTrip ==
  [][ LET id == last_call'.story_id
          others_kept ==
            \A x \in Ids \ {id} :
              stories_get(stories', x) = stories_get(stories, x)
      IN /\ last_call'.op = "add_story" =>
              /\ stories_get(stories', id) = last_call'.story
              /\ others_kept
         /\ last_call'.op = "delete_story" =>
              /\ stories_get(stories', id) = NoneStr
              /\ last_call'.ret = (id \in DOMAIN stories)
              /\ others_kept ]_vars

\* C17 witness: add_story has just stored a record next to another one
\* that is newer and differs in the flag
C17_Witness ==
  /\ last_call.op = "add_story"
  /\ stories_get(stories, last_call.story_id) = last_call.story
  /\ \E x \in DOMAIN stories :
       /\ x # last_call.story_id
       /\ stories[x].created_at > last_call.story.created_at
       /\ stories[x].is_on_spotify # last_call.story.is_on_spotify

\* C18: get_all() holds every stored record exactly once, newest first;
\* get_all(only_spotify=True) holds exactly the stored records with
\* is_on_spotify, in the order they have in get_all().
C18_ListSortedAndFiltered ==
  LET all == get_all(stories, FALSE)
      spotify == get_all(stories, TRUE)
      flagged == {x \in DOMAIN stories : stories[x].is_on_spotify}
      IsFlagged(x) == stories[x].is_on_spotify
  IN /\ Len(all) = Cardinality(DOMAIN stories)
     /\ {all[k] : k \in 1..Len(all)} = DOMAIN stories
     /\ \A k \in 1..(Len(all) - 1) :
          stories[all[k]].created_at >= stories[all[k + 1]].created_at
     /\ Len(spotify) = Cardinality(flagged)
     /\ {spotify[k] : k \in 1..Len(spotify)} = flagged
     /\ spotify = SelectSeq(all, IsFlagged)

\* C18 witness: the record stored last is the oldest of the store, the
\* store holds a flagged and an unflagged record
C18_Witness ==
  /\ last_call.op = "add_story"
  /\ Cardinality(DOMAIN stories) = NumIds
  /\ \A x \in DOMAIN stories \ {last_call.story_id} :
       stories[x].created_at > last_call.story.created_at
  /\ Len(get_all(stories, TRUE)) = 1
  /\ get_all(stories, FALSE)[NumIds] = last_call.story_id

\* Story id was deleted: a run created its record and its directory, and
\* neither is there any more (only a DELETE request whose rmtree succeeded
\* removes both).
Deleted(id) ==
  /\ id \notin DOMAIN stories
  /\ id \notin dirs
  /\ \E r \in Runs :
       run[r].id = id /\ run[r].pc \in {"text", "tts", "title", "ended"}

\* C19: once a story is deleted, no later step brings its record back
\* into the store or its directory back on disk, whatever the runs still
\* in flight do.
C19_DeletedStaysDeleted ==
  [][ \A id \in Ids :
        Deleted(id) => (id \notin DOMAIN stories' /\ id \notin dirs') ]_vars

\* C20: update_spotify_status and delete_story on an id the store does not
\* hold return False, the handlers answer 404 on exactly those ids, and
\* the step changes neither the mapping nor stories.json nor any story
\* directory; on a stored id update_spotify_status returns True and
\* changes is_on_spotify of that record and nothing else in the mapping or
\* on the story directories.
C20_NotFoundChangesNothing ==
  [][ LET id == last_call'.story_id
          untouched == /\ stories' = stories
                       /\ db_synced' = db_synced
                       /\ dirs' = dirs
                       /\ files' = files
      IN /\ (last_call'.op \in {"update_spotify_status", "delete_story"}
               /\ id \notin DOMAIN stories) =>
              (last_call'.ret = FALSE /\ untouched)
         /\ last_call'.op \in {"toggle_spotify", "delete_story_request"} =>
              /\ last_call'.response = 404
              /\ id \notin DOMAIN stories
              /\ untouched
         /\ (last_call'.op = "update_spotify_status"
               /\ id \in DOMAIN stories) =>
              /\ last_call'.ret = TRUE
              /\ stories' =
                   [stories EXCEPT ![id].is_on_spotify = last_call'.enabled]
              /\ dirs' = dirs
              /\ files' = files ]_vars

\* C20 witness: a delete request for an id that has a directory but no
\* record was answered 404 while another record is stored and stories.json
\* lags behind the mapping
C20_Witness ==
  /\ last_call.op = "delete_story_request"
  /\ last_call.response = 404
  /\ last_call.story_id \in dirs
  /\ stories # << >>
  /\ ~db_synced

\* C21: in every state (the points at which another task or handler can
\* run), stories.json holds exactly the mapping in memory.
C21_FileHoldsMapping == db_synced

\* C22: loading raises nothing; from a missing, unreadable or invalid file,
\* and from a mapping with at least one item that fails validation, the
\* store is empty afterwards (also when valid items precede the bad one);
\* a mapping of valid items is loaded as it is.
C22_LoadAllOrNothing ==
  last_call.op = "_load" =>
    LET file == last_call.file
        all_valid == \A k \in 1..Len(file.items) : file.items[k].valid
    IN /\ last_call.exc = NoExc
       /\ (file.kind # "mapping" \/ ~all_valid) => stories = << >>
       /\ (file.kind = "mapping" /\ all_valid) =>
            /\ DOMAIN stories =
                 {file.items[k].story_id : k \in 1..Len(file.items)}
            /\ \A k \in 1..Len(file.items) :
                 stories[file.items[k].story_id] = file.items[k].data

\* C22 witness: a mapping whose first item validates and whose second
\* does not was loaded as the empty store
C22_Witness ==
  /\ last_call.op = "_load"
  /\ last_call.file.kind = "mapping"
  /\ Len(last_call.file.items) = 2
  /\ last_call.file.items[1].valid
  /\ ~last_call.file.items[2].valid
  /\ stories = << >>

\* C23: every stored record carries duration_seconds, chapter_count and
\* word_count; while its status is not done they have their creation-time
\* value 0, and once it is done the chapter count is at least 1 and all
\* three hold the final values.
C23_CountsSetWithDone ==
  \A id \in DOMAIN stories :
    LET m == stories[id]
    IN /\ {"duration_seconds", "chapter_count", "word_count"} \subseteq DOMAIN m
       /\ m.status # "done" =>
            /\ m.duration_seconds = 0
            /\ m.chapter_count = 0
            /\ m.word_count = 0
       /\ m.status = "done" =>
            /\ m.chapter_count >= 1
            /\ m.word_count >= 1

\* C24: a long-form call whose outline step failed returns exactly what
\* single-pass generation returns for the provider's response (its story,
\* or its own exception); the outline's exception is never the one that
\* reaches the caller.
C24_OutlineFallsBack ==
  (last_call.op = "generate_full_story" /\ last_call.outline_exc # NoExc) =>
    LET single == single_pass_result(last_call.response)
    IN /\ last_call.exc = single.exc
       /\ last_call.story = single.story
       /\ last_call.exc # last_call.outline_exc

\* C24 witness: a 20-minute request whose outline step raised returned the
\* story parsed from the single-pass response
C24_Witness ==
  /\ last_call.op = "generate_full_story"
  /\ last_call.target_minutes = 20
  /\ last_call.outline_exc = NameErrorAsyncio
  /\ last_call.exc = NoExc
  /\ last_call.story.title = "Titel"
  /\ last_call.story.chapters[1].title = "Geschichte"

\* C25: when the provider's output is empty or cannot be parsed into
\* title, synopsis and text, the call fails with an exception.
C25_MalformedOutputFails ==
  (/\ last_call.op = "generate_full_story"
   /\ last_call.response.outcome = "text"
   /\ ~parses(remove_fences(strip(last_call.response.text))))
  => last_call.exc # NoExc

\* C26: a synthesis call that returns normally has left a non-empty file
\* for its chunk, and at the step a run invokes the merge every chunk path
\* it passes names an existing non-empty file.
C26_ChunksExistAtMerge ==
  [][ \A r \in Runs :
        LET story_id == run[r].id
        IN /\ Len(run'[r].written) > Len(run[r].written) =>
                LET name == run'[r].written[Len(run'[r].written)]
                IN /\ name \in DOMAIN files'[story_id]
                   /\ files'[story_id][name] = "data"
           /\ (run[r].returned < 3 /\ run'[r].returned >= 3) =>
                /\ TitleMp3 \in DOMAIN files'[story_id]
                /\ files'[story_id][TitleMp3] = "data"
           /\ (run[r].merge_input = << >> /\ run'[r].merge_input # << >>) =>
                \A k \in 1..Len(run'[r].merge_input) :
                  /\ run'[r].merge_input[k] \in DOMAIN files[story_id]
                  /\ files[story_id][run'[r].merge_input[k]] = "data" ]_vars

\* C27: a run that starts the media work of the merge is suspended in it:
\* the step that invokes the merge ends with the run still in flight and
\* the merge not yet returned, so that other runs and the request handlers
\* can take steps while the media tools work.
C27_MergeSuspends ==
  [][ \A r \in Runs :
        (/\ Len(run'[r].stages) > Len(run[r].stages)
         /\ run'[r].stages[Len(run'[r].stages)] = "merge")
        => /\ run'[r].pc # "ended"
           /\ run'[r].returned < 4 ]_vars

\* the step is the first step of a run with this id: it stores a new record
Creates(id) ==
  \E r \in Runs : run[r].pc = "created" /\ run'[r].pc = "text" /\ run[r].id = id

\* C28: for a record stored before and after a step (same id, same
\* created_at), a step of a run or of start() never changes is_on_spotify,
\* whatever it writes back; a step that changes is_on_spotify changes
\* nothing else in the store, and neither the status map nor any run.
C28_FlagIndependent ==
  [][ \A id \in DOMAIN stories \cap DOMAIN stories' :
        stories[id].created_at = stories'[id].created_at =>
          /\ run' # run => stories'[id].is_on_spotify = stories[id].is_on_spotify
          /\ stories'[id].is_on_spotify # stories[id].is_on_spotify =>
               /\ stories' = [stories EXCEPT ![id].is_on_spotify =
                                               stories'[id].is_on_spotify]
               /\ generation_status' = generation_status
               /\ run' = run ]_vars

\* C28 witness: a record published during the text stage is still published
\* after the title update and the error write-back of its run
C28_Witness ==
  \E r \in Runs :
    /\ Ended(r)
    /\ run[r].exc = NoFieldError
    /\ run[r].id \in DOMAIN stories
    /\ stories[run[r].id].is_on_spotify
    /\ stories[run[r].id].title = "Titel"
    /\ stories[run[r].id].status = "error"
    /\ stories[run[r].id].progress = Fehler(NoFieldError)

\* C29: id, prompt, genre, style, voice_key, voice_name and created_at of a
\* stored record change in no step other than the first step of a run with
\* that id, which stores a new record.
C29_CreationFieldsFrozen ==
  [][ \A id \in DOMAIN stories \cap DOMAIN stories' :
        ~Creates(id) =>
          /\ stories'[id].id = stories[id].id
          /\ stories'[id].prompt = stories[id].prompt
          /\ stories'[id].genre = stories[id].genre
          /\ stories'[id].style = stories[id].style
          /\ stories'[id].voice_key = stories[id].voice_key
          /\ stories'[id].voice_name = stories[id].voice_name
          /\ stories'[id].created_at = stories[id].created_at ]_vars

\* C29 witness: the record of the second run to start kept its creation
\* fields through the title update, a toggle and the error write-back
C29_Witness ==
  \E r \in Runs :
    /\ Ended(r)
    /\ run[r].id \in DOMAIN stories
    /\ stories[run[r].id] =
         [InitialMeta(run[r].id, 2) EXCEPT !.title = "Titel",
                                           !.description = "Zusammenfassung",
                                           !.is_on_spotify = TRUE,
                                           !.status = "error",
                                           !.progress = Fehler(NoFieldError)]

\* C30: the step in which a run fails leaves its stored record stored and
\* listed; the record differs from the one before the step in status
\* (error) and progress (the error message) only, and in title and
\* description when the text call returned in this same step.
C30_ErrorKeepsRecord ==
  [][ \A r \in Runs :
        (/\ run[r].pc # "ended"
         /\ run'[r].pc = "ended"
         /\ run[r].id \in DOMAIN stories)
        => LET id == run[r].id
               before == IF run[r].returned = 0 /\ run'[r].returned >= 1
                         THEN [stories[id] EXCEPT !.title = "Titel",
                                                  !.description = "Zusammenfassung"]
                         ELSE stories[id]
           IN /\ get_by_id(stories', id)
              /\ \E k \in 1..Len(get_all(stories', FALSE)) :
                   get_all(stories', FALSE)[k] = id
              /\ stories'[id] =
                   [before EXCEPT !.status = "error",
                                  !.progress = Fehler(run'[r].exc)]
              /\ \A other \in DOMAIN stories \ {id} :
                   other \in DOMAIN stories' /\ stories'[other] = stories[other] ]_vars

\* C30 witness: a run whose text call failed is listed with the
\* placeholders of its creation
C30_Witness ==
  \E r \in Runs :
    /\ Ended(r)
    /\ run[r].exc = ProviderError
    /\ run[r].id \in DOMAIN stories
    /\ stories[run[r].id].title = InitialMeta(run[r].id, 1).title
    /\ stories[run[r].id].description = InitialMeta(run[r].id, 1).description
    /\ stories[run[r].id].status = "error"
    /\ get_all(stories, FALSE) = << run[r].id >>

\* C31: a step of a run (or the start request that creates it) for story
\* id A leaves, for every other id B, the stored record, the ephemeral
\* status, the directory and its files as they were, and changes no other
\* run: neither progress nor failure of A shows in B.
C31_RunsIndependent ==
  [][ \A r \in Runs :
        run'[r] # run[r] =>
          /\ \A q \in Runs \ {r} : run'[q] = run[q]
          /\ \A B \in Ids \ {run'[r].id} :
               /\ (B \in DOMAIN stories) = (B \in DOMAIN stories')
               /\ B \in DOMAIN stories => stories'[B] = stories[B]
               /\ (B \in DOMAIN generation_status) = (B \in DOMAIN generation_status')
               /\ B \in DOMAIN generation_status =>
                    generation_status'[B] = generation_status[B]
               /\ (B \in dirs) = (B \in dirs')
               /\ files'[B] = files[B] ]_vars

\* C31 witness: two runs with different ids, one failed after the other had
\* stored its record, and the other is still generating in the text stage
C31_Witness ==
  \E r, q \in Runs :
    /\ run[r].id # run[q].id
    /\ Ended(r)
    /\ run[q].pc = "text"
    /\ run[r].id \in DOMAIN stories
    /\ run[q].id \in DOMAIN stories
    /\ stories[run[r].id].status = "error"
    /\ stories[run[r].id].created_at > stories[run[q].id].created_at
    /\ stories[run[q].id].status = "generating"
    /\ get_status(run[q].id).status = "generating_text"

\* a sequence without repetitions
NoRepeat(s) == \A j, k \in 1..Len(s) : j # k => s[j] # s[k]

\* C32: the synthesis calls of a run name each segment and the title at
\* most once and its stages (merge and image among them) are entered at
\* most once; a run that has ended takes no further step; the step in
\* which a content, synthesis or file failure ends a run makes no
\* collaborator call, and the step in which the merge fails makes none but
\* that merge.
C32_NoRetry ==
  [][ \A r \in Runs :
        /\ NoRepeat(run'[r].tts_calls)
        /\ NoRepeat(run'[r].stages)
        /\ Ended(r) => run'[r] = run[r]
        /\ (run[r].exc = NoExc /\ run'[r].exc # NoExc) =>
             /\ run'[r].pc = "ended"
             /\ run'[r].tts_calls = run[r].tts_calls
             /\ run'[r].exc \in {ProviderError, TtsError, FileNotFound} =>
                  run'[r].stages = run[r].stages
             /\ run'[r].exc \in {MediaToolError, NoAudioFiles, NotAwaitable} =>
                  run'[r].stages = Append(run[r].stages, "merge") ]_vars

\* C32 witness: of three segments two were synthesized, the call for the
\* third raised and the run ended without a title call or a merge
C32_Witness ==
  \E r \in Runs :
    /\ Ended(r)
    /\ run[r].chapters = 3
    /\ run[r].exc = TtsError
    /\ run[r].tts_calls = << 1, 2, 3 >>
    /\ Len(run[r].written) = 2
    /\ run[r].stages = << "text", "segments" >>

\* the step takes the directory of id, or a file in it, away
Reclaims(id) ==
  \/ id \in dirs /\ id \notin dirs'
  \/ \E n \in DOMAIN files[id] : n \notin DOMAIN files'[id]

\* C33: a step that takes a record out of the store is a delete of that
\* id: it removes that record only and changes no run and no ephemeral
\* status; a step that takes a story directory or a file of it away is a
\* delete of an id the store held, and the record is gone after it even
\* when the directory is reclaimed only in part.
C33_DeleteOrdering ==
  [][ \A id \in Ids :
        /\ (id \in DOMAIN stories /\ id \notin DOMAIN stories') =>
             /\ stories' = Remove(stories, {id})
             /\ run' = run
             /\ generation_status' = generation_status
        /\ Reclaims(id) =>
             /\ id \in DOMAIN stories
             /\ id \notin DOMAIN stories'
             /\ run' = run ]_vars

\* C33 witness: the record of a failed run was deleted while rmtree left
\* the directory behind without story.json
C33_Witness ==
  \E r \in Runs :
    /\ Ended(r)
    /\ run[r].exc = NoFieldError
    /\ run[r].id \notin DOMAIN stories
    /\ run[r].id \in dirs
    /\ StoryJson \notin DOMAIN files[run[r].id]
    /\ get_status(run[r].id).status = "error"

\* C34: a long-form call (target_minutes above 12) that returns a story has
\* made the outline call followed by one write call per segment brief, at
\* least one, in order, and returns the story assembled from the texts of
\* the write calls.
C34_SegmentedWrites ==
  (/\ last_call.op = "generate_full_story"
   /\ last_call.target_minutes > 12
   /\ last_call.exc = NoExc)
  => /\ Len(last_call.calls) >= 2
     /\ last_call.calls[1].prompt = "outline_prompt"
     /\ \A k \in 2..Len(last_call.calls) : last_call.calls[k].prompt = "write_prompt"
     /\ last_call.story.chapters[1].title = "Komplette Geschichte"

\* C35: the mode is chosen by target_minutes alone, one call with the
\* master prompt up to 12 minutes and the outline call first above 12, and
\* every call asks the provider for target_minutes * 150 words.
C35_StrategyByMinutes ==
  last_call.op = "generate_full_story" =>
    /\ last_call.target_minutes <= 12 =>
         last_call.calls = << [ prompt |-> "master_prompt",
                                words |-> last_call.target_minutes * 150 ] >>
    /\ last_call.target_minutes > 12 =>
         last_call.calls[1].prompt = "outline_prompt"
    /\ \A k \in 1..Len(last_call.calls) :
         last_call.calls[k].words = last_call.target_minutes * 150

\* C36: whenever a run has been started, the ephemeral status of its id
\* eventually becomes done or error.
C36_EveryRunEnds ==
  \A r \in Runs :
    (run[r].pc = "created")
      ~> (/\ run[r].id \in DOMAIN generation_status
          /\ get_status(run[r].id).status \in {"done", "error"})

\* C38: for the id of every run that has been started, a step never lowers
\* the progress_pct its status entry reports and never takes a published
\* value away; the value after a step is the value before it or one of the
\* percentages of the stages.
C38_ProgressMonotone ==
  [][ \A r \in Runs :
        Started(r) =>
          LET before == generation_status[run[r].id].progress_pct
              after == generation_status'[run[r].id].progress_pct
          IN /\ after >= before
             /\ after \in {before, ProgressPrepareAudio, ProgressTitleAudio,
                           ProgressMerge, 95} ]_vars

====
